---------------------------- MODULE Spec2Model ----------------------------
(***************************************************************************)
(* A model of deno-sqlite-orm: the typed value codec (json.ts), the        *)
(* per-column serializers and the row operations of SqliteOrm (orm.ts),    *)
(* and the schema reconciler (builder.ts, SqliteOrm.model).                *)
(*                                                                         *)
(* JavaScript values are records tagged by the field k:                    *)
(*   boolean  [k, b]          number  [k, int, frac]  (value int + frac/10)*)
(*   string   [k, s]          null, undefined, function  [k]               *)
(*   array    [k, items]      object  [k, cls, fields]   (ordered fields)  *)
(*   Map      [k, entries]    Uint8Array [k, bytes]                        *)
(* A thrown exception is the value [k |-> "throw", err |-> <class>].       *)
(***************************************************************************)
EXTENDS Integers, Sequences, FiniteSets, TLC

\* ------------------------------------------------------------------ bounds
MaxLen == 2
MaxDepth == 1
MaxRows == 2
MaxRowId == 2

\* ------------------------------------------------------- JavaScript values
None == [k |-> "none"]
Bool(b) == [k |-> "boolean", b |-> b]
Num(i, f) == [k |-> "number", int |-> i, frac |-> f]
Str(s) == [k |-> "string", s |-> s]
Null == [k |-> "null"]
Undefined == [k |-> "undefined"]
Func == [k |-> "function"]
Arr(items) == [k |-> "array", items |-> items]
Obj(cls, fields) == [k |-> "object", cls |-> cls, fields |-> fields]
MapV(entries) == [k |-> "Map", entries |-> entries]
Bytes(bs) == [k |-> "Uint8Array", bytes |-> bs]
Field(key, val) == [key |-> key, val |-> val]
Throw(e) == [k |-> "throw", err |-> e]
IsThrow(v) == v.k = "throw"

\* typeof v
TypeOf(v) ==
    CASE v.k \in {"boolean", "number", "string", "undefined", "function"} -> v.k
      [] OTHER -> "object"

\* Number.isInteger(v)
IsInteger(v) == v.k = "number" /\ v.frac = 0

\* data == null
IsNullish(v) == v.k \in {"null", "undefined"}

\* The first element of s that throws, or None.
FirstThrow(s) ==
    IF \E i \in 1..Len(s) : IsThrow(s[i])
    THEN s[CHOOSE i \in 1..Len(s) : IsThrow(s[i]) /\ \A j \in 1..(i - 1) : ~IsThrow(s[j])]
    ELSE None

\* obj[key] of a plain object or class instance: undefined when absent.
Get(obj, key) ==
    IF obj.k = "object" /\ \E i \in 1..Len(obj.fields) : obj.fields[i].key = key
    THEN obj.fields[CHOOSE i \in 1..Len(obj.fields) : obj.fields[i].key = key].val
    ELSE Undefined

\* obj[key] = val: an existing key keeps its place, a new key is appended.
SetField(fields, key, val) ==
    IF \E i \in 1..Len(fields) : fields[i].key = key
    THEN [i \in 1..Len(fields) |->
            IF fields[i].key = key THEN Field(key, val) ELSE fields[i]]
    ELSE Append(fields, Field(key, val))

\* Object.assign(target, source) on field lists.
RECURSIVE AssignFields(_, _)
AssignFields(target, source) ==
    IF source = <<>> THEN target
    ELSE AssignFields(SetField(target, Head(source).key, Head(source).val), Tail(source))

\* ------------------------------------------------------------- variables
VARIABLES
    serializableClasses,  \* json.ts: the registered classes, in registration order
    cv,                   \* codec run: the value handed to jsonify
    enc,                  \* codec run: jsonify's result (None before the call)
    dec,                  \* codec run: dejsonify's result (None before the call)
    sval,                 \* serializer run: the field value handed to serialize
    stype,                \* serializer run: the column type
    stored,               \* serializer run: serialize's result (None before the call)
    loaded,               \* serializer run: deseralize's result (None before the call)
    models,               \* SqliteOrm.models: row type name -> Model
    tables,               \* the store: table name -> [cols, rows]
    lastInsertRowId,      \* the store: db.lastInsertRowId
    rowType,              \* the row type the application works with
    inst,                 \* the row instance the application holds (None: none yet)
    ret,                  \* the last mapper call: [op, arg, err, out]
    stmts,                \* the statements the last mapper call handed to the store
    tempModelData,        \* SqliteOrm.tempModelData: the columns the decorators collected
    ignoredColumns,       \* SqliteOrm.ignoredColumns (read through includes only)
    modelFile             \* the file <dbPath>.model.json (None: no file)

codecVars == <<cv, enc, dec>>
serVars == <<sval, stype, stored, loaded>>
regVars == <<tempModelData, ignoredColumns, modelFile>>
ormVars == <<models, tables, lastInsertRowId, rowType, inst, ret, stmts, regVars>>
vars == <<serializableClasses, codecVars, serVars, ormVars>>

\* ------------------------------------------------- application classes
\* The classes of the application (README, "Saving objects"): Bar is
\* registered with ignoredProps ['ignored'], Baz with none.
Classes == {"Bar", "Baz"}
IgnoredPropsOf(cls) == IF cls = "Bar" THEN {"ignored"} ELSE {}

\* new cls(): the instance with its field initialisers.
NewObject(cls) ==
    CASE cls = "Bar" -> Obj("Bar", <<Field("foo", Str("bar")), Field("ignored", Str(""))>>)
      [] cls = "Baz" -> Obj("Baz", <<Field("n", Num(0, 0))>>)
      [] OTHER -> Obj(cls, <<>>)

\* The type tag of a registered class, and the tags that start with 'custom-'.
CustomTag(cls) == "custom-" \o cls
IsCustomTag(s) == \E c \in Classes : s = CustomTag(c)
CustomName(s) == CHOOSE c \in Classes : s = CustomTag(c)

\* serializableClasses.find(...): the index of the first match, 0 when none.
FindRegisteredFor(val) ==
    IF \E i \in 1..Len(serializableClasses) :
            val.k = "object" /\ val.cls = serializableClasses[i].classRef
    THEN CHOOSE i \in 1..Len(serializableClasses) :
            /\ val.cls = serializableClasses[i].classRef
            /\ \A j \in 1..(i - 1) : val.cls # serializableClasses[j].classRef
    ELSE 0

FindRegisteredNamed(name) ==
    IF \E i \in 1..Len(serializableClasses) : serializableClasses[i].classRef = name
    THEN CHOOSE i \in 1..Len(serializableClasses) :
            /\ serializableClasses[i].classRef = name
            /\ \A j \in 1..(i - 1) : serializableClasses[j].classRef # name
    ELSE 0

IsSerializabe(v) == TypeOf(v) \notin {"bigint", "function", "symbol"}

\* Object.entries(obj) of a non-array object.
ObjectEntries(obj) ==
    CASE obj.k = "object" -> obj.fields
      [] obj.k = "Uint8Array" ->
            [i \in 1..Len(obj.bytes) |-> Field(ToString(i - 1), Num(obj.bytes[i], 0))]
      [] OTHER -> <<>>

\* ------------------------------------------------------------ the codec
RECURSIVE Jsonify(_, _)
RECURSIVE WriteValue(_)
RECURSIVE Dejsonify(_)
RECURSIVE ReadValue(_)

\* {data: d, type: t}, or d's exception.
Tagged(d, t) ==
    IF IsThrow(d) THEN d
    ELSE Obj("Object", <<Field("data", d), Field("type", Str(t))>>)

\* [...val.entries()]: the entries of a Map as 2-element arrays.
MapEntries(val) ==
    Arr([i \in 1..Len(val.entries) |-> Arr(<<val.entries[i].key, val.entries[i].val>>)])

WriteValue(val) ==
    CASE TypeOf(val) \in {"boolean", "number", "string"} -> val
      [] TypeOf(val) = "object" ->
            IF val.k = "Map" THEN Tagged(Jsonify(MapEntries(val), {}), "Map")
            ELSE IF val.k = "array" THEN Jsonify(val, {})
            ELSE IF val.k = "Uint8Array" THEN Tagged(Str("base64"), "U8IntArray")
            ELSE IF FindRegisteredFor(val) # 0
            THEN LET clas == serializableClasses[FindRegisteredFor(val)]
                 IN  Tagged(Jsonify(val, clas.ignoredProps), CustomTag(clas.classRef))
            ELSE Tagged(Jsonify(val, {}), "unknown")
      [] OTHER -> Throw("Error")

Jsonify(obj, ignoredProps) ==
    IF obj.k = "array"
    THEN LET kept == SelectSeq(obj.items, IsSerializabe)
             parsed == [i \in 1..Len(kept) |-> WriteValue(kept[i])]
         IN  IF FirstThrow(parsed) # None THEN FirstThrow(parsed) ELSE Arr(parsed)
    ELSE IF IsNullish(obj) THEN Throw("TypeError")
    ELSE LET Keep(f) == IsSerializabe(f.val) /\ f.key \notin ignoredProps
             kept == SelectSeq(ObjectEntries(obj), Keep)
             vals == [i \in 1..Len(kept) |-> WriteValue(kept[i].val)]
         IN  IF FirstThrow(vals) # None THEN FirstThrow(vals)
             ELSE Obj("Object", [i \in 1..Len(kept) |-> Field(kept[i].key, vals[i])])

\* map.set(key, value) on an entry list: primitives are the same key when equal,
\* objects only when they are the same object, which decoded values never are.
MapSet(entries, key, val) ==
    IF TypeOf(key) # "object" /\ \E i \in 1..Len(entries) : entries[i].key = key
    THEN [i \in 1..Len(entries) |->
            IF entries[i].key = key THEN Field(key, val) ELSE entries[i]]
    ELSE Append(entries, Field(key, val))

\* item[i] of an entry object handed to new Map(...).
EntryPart(item, i) ==
    IF item.k = "array" /\ Len(item.items) >= i THEN item.items[i] ELSE Undefined

RECURSIVE MapOfItems(_, _)
MapOfItems(items, entries) ==
    IF items = <<>> THEN MapV(entries)
    ELSE IF TypeOf(Head(items)) # "object" \/ Head(items).k = "null" THEN Throw("TypeError")
    ELSE MapOfItems(Tail(items),
                    MapSet(entries, EntryPart(Head(items), 1), EntryPart(Head(items), 2)))

\* new Map(iterable)
NewMap(iterable) ==
    IF IsThrow(iterable) THEN iterable
    ELSE IF iterable.k # "array" THEN Throw("TypeError")
    ELSE MapOfItems(iterable.items, <<>>)

ReadValue(val) ==
    CASE TypeOf(val) \in {"boolean", "number", "string"} -> val
      [] TypeOf(val) = "object" ->
            IF val.k = "array" THEN Dejsonify(val)
            ELSE IF val.k = "null" THEN Throw("TypeError")
            ELSE LET type == Get(val, "type")
                     data == Get(val, "data")
                 IN  IF type = Str("Map") THEN NewMap(Dejsonify(Arr(<<data>>)))
                     ELSE IF type = Str("U8IntArray") THEN Arr(<<>>)
                     ELSE IF type.k # "string" THEN Throw("TypeError")
                     ELSE IF IsCustomTag(type.s) /\ FindRegisteredNamed(CustomName(type.s)) # 0
                     THEN LET clas == serializableClasses[FindRegisteredNamed(CustomName(type.s))]
                              d == Dejsonify(data)
                          IN  IF IsThrow(d) THEN d
                              ELSE Obj(clas.classRef,
                                       AssignFields(NewObject(clas.classRef).fields,
                                                    ObjectEntries(d)))
                     ELSE IF type = Str("unknown") THEN Dejsonify(data)
                     ELSE Throw("Error")
      [] OTHER -> Throw("Error")

Dejsonify(jsonObj) ==
    IF jsonObj.k = "array"
    THEN LET parsed == [i \in 1..Len(jsonObj.items) |-> ReadValue(jsonObj.items[i])]
         IN  IF FirstThrow(parsed) # None THEN FirstThrow(parsed) ELSE Arr(parsed)
    ELSE IF IsNullish(jsonObj) THEN Throw("TypeError")
    ELSE LET es == ObjectEntries(jsonObj)
             vals == [i \in 1..Len(es) |-> ReadValue(es[i].val)]
         IN  IF FirstThrow(vals) # None THEN FirstThrow(vals)
             ELSE Obj("Object", [i \in 1..Len(es) |-> Field(es[i].key, vals[i])])

\* ------------------------------------------------------------ JSON text
\* A JSON text is a string whose content is kept as its token list:
\* [k |-> "string", toks |-> <<...>>]. Any other string is not JSON.
Tok(t) == [t |-> t]
NumTok(v) == [t |-> "number", int |-> v.int, frac |-> v.frac]
StrTok(str) == [t |-> "string", s |-> str]
JsonText(toks) == [k |-> "string", toks |-> toks]

RECURSIVE StringifyTokens(_)
RECURSIVE StringifyItems(_, _)
RECURSIVE StringifyMembers(_, _)

\* The elements of an array, comma separated; undefined and functions print as null.
StringifyItems(items, first) ==
    IF items = <<>> THEN <<>>
    ELSE (IF first THEN <<>> ELSE <<Tok(",")>>)
         \o (IF TypeOf(Head(items)) \in {"undefined", "function"}
             THEN <<Tok("null")>> ELSE StringifyTokens(Head(items)))
         \o StringifyItems(Tail(items), FALSE)

\* The members of an object; undefined and function members are left out.
StringifyMembers(fields, first) ==
    IF fields = <<>> THEN <<>>
    ELSE IF TypeOf(Head(fields).val) \in {"undefined", "function"}
    THEN StringifyMembers(Tail(fields), first)
    ELSE (IF first THEN <<>> ELSE <<Tok(",")>>)
         \o <<StrTok(Head(fields).key), Tok(":")>> \o StringifyTokens(Head(fields).val)
         \o StringifyMembers(Tail(fields), FALSE)

StringifyTokens(v) ==
    CASE v.k = "boolean" -> <<Tok(IF v.b THEN "true" ELSE "false")>>
      [] v.k = "number" -> <<NumTok(v)>>
      [] v.k = "string" -> <<StrTok(v.s)>>
      [] v.k = "null" -> <<Tok("null")>>
      [] v.k = "array" -> <<Tok("[")>> \o StringifyItems(v.items, TRUE) \o <<Tok("]")>>
      [] OTHER -> <<Tok("{")>> \o StringifyMembers(ObjectEntries(v), TRUE) \o <<Tok("}")>>

\* JSON.stringify(v) of a defined value.
JsonStringify(v) == JsonText(StringifyTokens(v))

\* The parser: each step returns [val, rest], val a throw on a syntax error.
Parsed(v, rest) == [val |-> v, rest |-> rest]
SyntaxError == Parsed(Throw("SyntaxError"), <<>>)

RECURSIVE ParseValue(_)
RECURSIVE ParseItems(_, _)
RECURSIVE ParseMembers(_, _)

\* After '[' or after a ',' inside an array: value, then ',' or ']'.
ParseItems(toks, acc) ==
    LET item == ParseValue(toks)
    IN  IF IsThrow(item.val) \/ item.rest = <<>> THEN SyntaxError
        ELSE IF Head(item.rest).t = "]" THEN Parsed(Arr(Append(acc, item.val)), Tail(item.rest))
        ELSE IF Head(item.rest).t = "," THEN ParseItems(Tail(item.rest), Append(acc, item.val))
        ELSE SyntaxError

\* After '{' or after a ',' inside an object: "key" ':' value, then ',' or '}'.
ParseMembers(toks, acc) ==
    IF Len(toks) < 2 \/ toks[1].t # "string" \/ toks[2].t # ":" THEN SyntaxError
    ELSE LET item == ParseValue(Tail(Tail(toks)))
             fields == SetField(acc, toks[1].s, item.val)
         IN  IF IsThrow(item.val) \/ item.rest = <<>> THEN SyntaxError
             ELSE IF Head(item.rest).t = "}"
             THEN Parsed(Obj("Object", fields), Tail(item.rest))
             ELSE IF Head(item.rest).t = "," THEN ParseMembers(Tail(item.rest), fields)
             ELSE SyntaxError

ParseValue(toks) ==
    IF toks = <<>> THEN SyntaxError
    ELSE LET h == Head(toks)
             rest == Tail(toks)
         IN  CASE h.t = "true" -> Parsed(Bool(TRUE), rest)
               [] h.t = "false" -> Parsed(Bool(FALSE), rest)
               [] h.t = "null" -> Parsed(Null, rest)
               [] h.t = "number" -> Parsed(Num(h.int, h.frac), rest)
               [] h.t = "string" -> Parsed(Str(h.s), rest)
               [] h.t = "[" ->
                    IF rest # <<>> /\ Head(rest).t = "]" THEN Parsed(Arr(<<>>), Tail(rest))
                    ELSE ParseItems(rest, <<>>)
               [] h.t = "{" ->
                    IF rest # <<>> /\ Head(rest).t = "}"
                    THEN Parsed(Obj("Object", <<>>), Tail(rest))
                    ELSE ParseMembers(rest, <<>>)
               [] OTHER -> SyntaxError

\* JSON.parse(text)
JsonParse(text) ==
    IF "toks" \notin DOMAIN text THEN Throw("SyntaxError")
    ELSE LET Whole(r) == IF IsThrow(r.val) \/ r.rest # <<>> THEN Throw("SyntaxError") ELSE r.val
         IN  Whole(ParseValue(text.toks))

\* ------------------------------------------------------ the serializers
ColumnTypes == {"string", "number", "boolean", "json", "integer", "blob"}
InvalidData == Throw("DBInvalidData")

\* The 'integer' case of serialize.
SerializeInteger(data) ==
    IF TypeOf(data) # "number" \/ IsInteger(data) THEN InvalidData ELSE data

\* The 'json' case of serialize.
SerializeJson(data) ==
    IF TypeOf(data) # "object" THEN InvalidData
    ELSE LET Stringified(j) == IF IsThrow(j) THEN j ELSE JsonStringify(j)
         IN  Stringified(Jsonify(data, {}))

Serialize(data, type) ==
    IF IsNullish(data) THEN Null
    ELSE CASE type = "boolean" ->
                IF TypeOf(data) # "boolean" THEN InvalidData
                ELSE IF data.b THEN Num(1, 0) ELSE Num(0, 0)
           [] type = "string" -> IF TypeOf(data) # "string" THEN InvalidData ELSE data
           [] type = "number" -> IF TypeOf(data) # "number" THEN InvalidData ELSE data
           [] type = "integer" -> SerializeInteger(data)
           [] type = "blob" -> IF data.k # "Uint8Array" THEN InvalidData ELSE data
           [] type = "json" -> SerializeJson(data)
           [] OTHER -> Throw("Error")

\* The 'json' case of deseralize.
DeseralizeJson(data) ==
    IF TypeOf(data) # "string" THEN InvalidData
    ELSE LET Revived(parsed) == IF IsThrow(parsed) THEN parsed ELSE Dejsonify(parsed)
             Caught(d) == IF IsThrow(d) THEN InvalidData ELSE d
         IN  Caught(Revived(JsonParse(data)))

Deseralize(data, type) ==
    IF IsNullish(data) THEN Null
    ELSE CASE type = "boolean" ->
                IF TypeOf(data) # "number" /\ ~IsInteger(data) THEN InvalidData
                ELSE Bool(data = Num(1, 0))
           [] type = "string" -> IF TypeOf(data) # "string" THEN InvalidData ELSE data
           [] type = "number" -> IF TypeOf(data) # "number" THEN InvalidData ELSE data
           [] type = "integer" ->
                IF TypeOf(data) # "number" /\ ~IsInteger(data) THEN InvalidData ELSE data
           [] type = "blob" -> IF data.k # "Uint8Array" THEN InvalidData ELSE data
           [] type = "json" -> DeseralizeJson(data)
           [] OTHER -> Undefined

\* ---------------------------------------------------- the schema model
\* col.mappedTo of a column declared without mapTo.
NoName == ""

Column(name, type, mappedTo, nullable, defaultValue, isPrimaryKey, autoIncrement) ==
    [name |-> name, type |-> type, mappedTo |-> mappedTo, nullable |-> nullable,
     defaultValue |-> defaultValue, isPrimaryKey |-> isPrimaryKey,
     autoIncrement |-> autoIncrement]

Model(tableName, columns) == [tableName |-> tableName, columns |-> columns]

\* col.mappedTo ?? col.name
PhysicalName(col) == IF col.mappedTo = NoName THEN col.name ELSE col.mappedTo

\* columns.find((c) => c.isPrimaryKey): its index, 0 when there is none.
PrimaryKeyIndex(columns) ==
    IF \E i \in 1..Len(columns) : columns[i].isPrimaryKey
    THEN CHOOSE i \in 1..Len(columns) :
            columns[i].isPrimaryKey /\ \A j \in 1..(i - 1) : ~columns[j].isPrimaryKey
    ELSE 0

\* columns.find((c) => c.isPrimaryKey && c.autoIncrement): index or 0.
IncrementPrimaryKeyIndex(columns) ==
    IF \E i \in 1..Len(columns) : columns[i].isPrimaryKey /\ columns[i].autoIncrement
    THEN CHOOSE i \in 1..Len(columns) :
            /\ columns[i].isPrimaryKey /\ columns[i].autoIncrement
            /\ \A j \in 1..(i - 1) : ~(columns[j].isPrimaryKey /\ columns[j].autoIncrement)
    ELSE 0

\* The row types of the application and the models their registration builds:
\*   @orm.model() class Foo extends SqlTable { foo = 'bar' }
\*   @orm.model() class Tag extends SqlTable {
\*       @orm.primaryKey() @orm.columnType('string') key!: string
\*       @orm.mapTo('enabled') on = false }
\*   @orm.model() class Log extends SqlTable { @orm.ignoreColumn() id = -1; msg = '' }
RowTypes == {"Foo", "Tag", "Log"}

RegisteredModels ==
    [cls \in RowTypes |->
        CASE cls = "Foo" ->
                Model("Foo", << Column("id", "integer", NoName, FALSE, Num(-1, 0), TRUE, TRUE),
                                Column("foo", "string", NoName, FALSE, Str("bar"), FALSE, FALSE) >>)
          [] cls = "Tag" ->
                Model("Tag", << Column("key", "string", NoName, TRUE, Undefined, TRUE, FALSE),
                                Column("on", "boolean", "enabled", FALSE, Bool(FALSE), FALSE, FALSE) >>)
          [] OTHER ->
                Model("Log", << Column("msg", "string", NoName, FALSE, Str(""), FALSE, FALSE) >>)]

\* A row instance: its class, the _new flag and its other fields.
Row(cls, isNew, fields) == [k |-> "row", cls |-> cls, isNew |-> isNew, fields |-> fields]

\* new cls() of a row type: _new = true, id = -1 and the field initialisers.
NewRow(cls) ==
    Row(cls, TRUE,
        CASE cls = "Foo" -> [f \in {"id", "foo"} |-> IF f = "id" THEN Num(-1, 0) ELSE Str("bar")]
          [] cls = "Tag" ->
                [f \in {"id", "key", "on"} |->
                    IF f = "id" THEN Num(-1, 0) ELSE IF f = "key" THEN Undefined ELSE Bool(FALSE)]
          [] OTHER -> [f \in {"id", "msg"} |-> IF f = "id" THEN Num(-1, 0) ELSE Str("")])

\* table[name] of a row instance.
FieldOf(row, name) == IF name \in DOMAIN row.fields THEN row.fields[name] ELSE Undefined

\* ------------------------------------------------------------ the store
\* A live column as PRAGMA table_info reports it, and a stored row.
LiveColumn(name, type, notnull, dflt, pk) ==
    [name |-> name, type |-> type, notnull |-> notnull, dflt_value |-> dflt, pk |-> pk]
StoredRow(rowid, vals) == [rowid |-> rowid, vals |-> vals]

ColumnNames(t) == {t.cols[i].name : i \in 1..Len(t.cols)}

\* The INTEGER PRIMARY KEY column of a table (the alias of its rowid), or NoName.
RowIdAlias(t) ==
    IF \E i \in 1..Len(t.cols) : t.cols[i].pk = 1 /\ t.cols[i].type = "INTEGER"
    THEN (CHOOSE c \in {t.cols[i] : i \in 1..Len(t.cols)} : c.pk = 1 /\ c.type = "INTEGER").name
    ELSE NoName

NextRowId(t) ==
    IF t.rows = <<>> THEN 1
    ELSE 1 + (CHOOSE m \in {t.rows[i].rowid : i \in 1..Len(t.rows)} :
                \A i \in 1..Len(t.rows) : t.rows[i].rowid <= m)

\* rows with row added, in rowid order.
InsertSorted(rows, row) ==
    LET before == SelectSeq(rows, LAMBDA r : r.rowid < row.rowid)
        after == SelectSeq(rows, LAMBDA r : r.rowid > row.rowid)
    IN  before \o <<row>> \o after

\* The parameter bound to column name, NULL when the statement does not name it.
ParamOf(cols, params, name) ==
    IF \E i \in 1..Len(cols) : cols[i] = name
    THEN params[CHOOSE i \in 1..Len(cols) : cols[i] = name]
    ELSE Null

\* Whether a row with one column = val (SQL equality: NULL equals nothing).
Matches(row, col, val) == val.k # "null" /\ row.vals[col] = val

\* The store executing a statement: [err, tables, lastInsertRowId, rows], err
\* "none" or the class of the exception, rows the result of a SELECT.
StoreResult(err, tbls, rowid, rows) ==
    [err |-> err, tables |-> tbls, lastInsertRowId |-> rowid, rows |-> rows]
StoreError == StoreResult("Error", tables, lastInsertRowId, <<>>)

ExecInsert(st) ==
    LET t == tables[st.table]
        alias == RowIdAlias(t)
        given == [c \in ColumnNames(t) |-> ParamOf(st.cols, st.params, c)]
        rowid == IF alias # NoName /\ given[alias].k = "number"
                 THEN given[alias].int ELSE NextRowId(t)
        vals == [c \in ColumnNames(t) |-> IF c = alias THEN Num(rowid, 0) ELSE given[c]]
    IN  IF \/ \E i \in 1..Len(st.cols) : st.cols[i] \notin ColumnNames(t)
           \/ alias # NoName /\ given[alias].k # "null" /\ ~IsInteger(given[alias])
           \/ \E i \in 1..Len(t.cols) : t.cols[i].notnull = 1 /\ vals[t.cols[i].name].k = "null"
           \/ \E i \in 1..Len(t.rows) : t.rows[i].rowid = rowid
           \/ \E i \in 1..Len(t.cols), j \in 1..Len(t.rows) :
                    t.cols[i].pk = 1 /\ Matches(t.rows[j], t.cols[i].name, vals[t.cols[i].name])
        THEN StoreError
        ELSE StoreResult("none",
                         [tables EXCEPT ![st.table].rows = InsertSorted(t.rows, StoredRow(rowid, vals))],
                         rowid, <<>>)

ExecUpdate(st) ==
    LET t == tables[st.table]
        Updated(row) ==
            IF Matches(row, st.keyCol, st.keyVal)
            THEN StoredRow(row.rowid,
                           [c \in ColumnNames(t) |->
                                IF \E i \in 1..Len(st.cols) : st.cols[i] = c
                                THEN ParamOf(st.cols, st.params, c) ELSE row.vals[c]])
            ELSE row
        rows == [i \in 1..Len(t.rows) |-> Updated(t.rows[i])]
    IN  IF \/ \E i \in 1..Len(st.cols) : st.cols[i] \notin ColumnNames(t)
           \/ st.keyCol \notin ColumnNames(t)
           \/ \E i \in 1..Len(t.cols), j \in 1..Len(rows) :
                    t.cols[i].notnull = 1 /\ rows[j].vals[t.cols[i].name].k = "null"
        THEN StoreError
        ELSE StoreResult("none", [tables EXCEPT ![st.table].rows = rows], lastInsertRowId, <<>>)

\* The rows a WHERE selects; no WHERE selects every row.
Selected(t, where) ==
    IF where = None THEN t.rows
    ELSE SelectSeq(t.rows, LAMBDA r : Matches(r, where.clause, where.values[1]))

ExecSelect(st) ==
    LET t == tables[st.table]
        rows == Selected(t, st.where)
    IN  IF st.where # None /\ st.where.clause \notin ColumnNames(t) THEN StoreError
        ELSE StoreResult("none", tables, lastInsertRowId,
                         IF st.limit = 1 /\ rows # <<>> THEN <<rows[1]>> ELSE rows)

ExecDelete(st) ==
    LET t == tables[st.table]
        gone == Selected(t, st.where)
        left == SelectSeq(t.rows, LAMBDA r : \A i \in 1..Len(gone) : gone[i] # r)
    IN  IF st.where # None /\ st.where.clause \notin ColumnNames(t) THEN StoreError
        ELSE StoreResult("none", [tables EXCEPT ![st.table].rows = left], lastInsertRowId, <<>>)

\* ------------------------------------------------------- the query builder
\* A SelectQuery whose where clause, if any, is `<column> = ?` with one bound
\* value; limit 0 stands for no limit.
Where(col, val) == [clause |-> col, values |-> <<val>>]
Query(where, limit) == [k |-> "query", where |-> where, limit |-> limit]

IsProvidedTypeValid(data, col) ==
    CASE col.type = "boolean" -> TypeOf(data) = "boolean"
      [] col.type = "string" -> TypeOf(data) = "string"
      [] col.type = "number" -> TypeOf(data) = "number"
      [] col.type = "integer" -> TypeOf(data) = "number" /\ IsInteger(data)
      [] OTHER -> FALSE

BuildSelectQuery(query, tableName) ==
    [k |-> "statement", kind |-> "SELECT", table |-> tableName, where |-> query.where, limit |-> query.limit]

BuildDeleteQuery(query, tableName) ==
    [k |-> "statement", kind |-> "DELETE", table |-> tableName, where |-> query.where]

\* One row, every column of builtData, values as positional parameters.
BuildInsertQuery(model, builtData) ==
    [k |-> "statement", kind |-> "INSERT", table |-> model.tableName,
     cols |-> [i \in 1..Len(builtData) |-> builtData[i].key],
     params |-> [i \in 1..Len(builtData) |-> builtData[i].val]]

\* Every column of builtData, keyed on the primary key's value in builtData;
\* a throw when the model has no primary key to key the update on.
BuildUpdateQuery(model, builtData) ==
    LET pki == PrimaryKeyIndex(model.columns)
    IN  IF pki = 0 THEN Throw("Error")
        ELSE [k |-> "statement", kind |-> "UPDATE", table |-> model.tableName,
              cols |-> [i \in 1..Len(builtData) |-> builtData[i].key],
              params |-> [i \in 1..Len(builtData) |-> builtData[i].val],
              keyCol |-> PhysicalName(model.columns[pki]),
              keyVal |-> Get(Obj("Object", builtData), PhysicalName(model.columns[pki]))]

\* -------------------------------------------------------- the row mapper
\* What a mapper call did: the exception it raised ("none": it returned), the
\* value it returned, the statements it handed to the store, and the store
\* and the row instance after it.
CallResult(err, out, issued, store, row) ==
    [err |-> err, out |-> out, stmts |-> issued, tables |-> store.tables,
     lastInsertRowId |-> store.lastInsertRowId, row |-> row]
Raised(err, issued) ==
    CallResult(err, None, issued, [tables |-> tables, lastInsertRowId |-> lastInsertRowId], inst)

\* found[name] of a fetched row.
Fetched(found, name) == IF name \in DOMAIN found.vals THEN found.vals[name] ELSE Undefined

\* const parsed = new table(); parsed[col.name] = deseralize(found[...]) for
\* every column: the instance, or the first exception.
ParseRow(cls, found) ==
    LET cols == models[cls].columns
        fresh == NewRow(cls)
        ValueOf(vals, f) ==
            IF \E i \in 1..Len(cols) : cols[i].name = f
            THEN vals[CHOOSE i \in 1..Len(cols) :
                        cols[i].name = f /\ \A j \in (i + 1)..Len(cols) : cols[j].name # f]
            ELSE fresh.fields[f]
        Assigned(vals) ==
            IF FirstThrow(vals) # None THEN FirstThrow(vals)
            ELSE Row(cls, fresh.isNew,
                     [f \in DOMAIN fresh.fields \cup {cols[i].name : i \in 1..Len(cols)} |->
                        ValueOf(vals, f)])
    IN  Assigned([i \in 1..Len(cols) |->
                    Deseralize(Fetched(found, PhysicalName(cols[i])), cols[i].type)])

FindOne(cls, idOrQuery) ==
    LET model == models[cls]
        pki == PrimaryKeyIndex(model.columns)
        col == model.columns[pki]
        scalar == TypeOf(idOrQuery) # "object"
        Parsed1(query, got, parsed) ==
            IF IsThrow(parsed) THEN Raised(parsed.err, <<query>>)
            ELSE CallResult("none", parsed, <<query>>, got, inst)
        Got(query, got) ==
            IF got.err # "none" THEN Raised(got.err, <<query>>)
            ELSE IF got.rows = <<>> THEN Raised("DBNotFound", <<query>>)
            ELSE Parsed1(query, got, ParseRow(cls, got.rows[1]))
        Prepared(query) == Got(query, ExecSelect(query))
        ById(key) ==
            IF IsThrow(key) THEN Raised(key.err, <<>>)
            ELSE Prepared(BuildSelectQuery(Query(Where(PhysicalName(col), key), 1), model.tableName))
    IN  IF pki = 0 THEN Raised("DBInvalidTable", <<>>)
        ELSE IF ~scalar
        THEN Prepared(BuildSelectQuery([idOrQuery EXCEPT !.limit = 1], model.tableName))
        ELSE IF ~IsProvidedTypeValid(idOrQuery, col) THEN Raised("DBInvalidData", <<>>)
        ELSE ById(Serialize(idOrQuery, col.type))

\* findOneOptional with a catch that converts every exception.
FindOneOptionalCatchingAll(cls, idOrQuery) ==
    LET Caught(r) ==
            IF r.err # "none" THEN [r EXCEPT !.err = "none", !.out = NewRow(cls)] ELSE r
    IN  Caught(FindOne(cls, idOrQuery))

FindOneOptional(cls, idOrQuery) ==
    LET Caught(r) ==
            IF r.err = "DBNotFound" THEN [r EXCEPT !.err = "none", !.out = NewRow(cls)] ELSE r
    IN  Caught(FindOne(cls, idOrQuery))

FindMany(cls, query) ==
    LET ParsedAll(built, got, parsedAll) ==
            IF FirstThrow(parsedAll) # None THEN Raised(FirstThrow(parsedAll).err, <<built>>)
            ELSE CallResult("none", parsedAll, <<built>>, got, inst)
        Got(built, got) ==
            IF got.err # "none" THEN Raised(got.err, <<built>>)
            ELSE ParsedAll(built, got, [i \in 1..Len(got.rows) |-> ParseRow(cls, got.rows[i])])
        Prepared(built) == Got(built, ExecSelect(built))
    IN  Prepared(BuildSelectQuery(query, models[cls].tableName))

\* builtData[col.mappedTo ?? col.name] = serialize(table[col.name], col.type)
RECURSIVE BuiltData(_, _, _)
BuiltData(row, cols, acc) ==
    IF cols = <<>> THEN acc
    ELSE BuiltData(row, Tail(cols),
                   SetField(acc, PhysicalName(Head(cols)),
                            Serialize(FieldOf(row, Head(cols).name), Head(cols).type)))

\* save with `table._new = false` ahead of the insert.
SaveMarkingFirst(row) ==
    LET model == models[row.cls]
        ipk == IncrementPrimaryKeyIndex(model.columns)
        Saved(rowid) ==
            Row(row.cls, FALSE,
                IF ipk = 0 THEN row.fields
                ELSE [f \in DOMAIN row.fields \cup {model.columns[ipk].name} |->
                        IF f = model.columns[ipk].name THEN Num(rowid, 0) ELSE row.fields[f]])
        Stored(saved, insert, inserted) == CallResult("none", saved, <<insert>>, inserted, saved)
        Inserted(insert, inserted) ==
            IF inserted.err # "none"
            THEN [Raised(inserted.err, <<insert>>) EXCEPT !.row = [row EXCEPT !.isNew = FALSE]]
            ELSE Stored(Saved(inserted.lastInsertRowId), insert, inserted)
        Updated(update, updated) ==
            IF updated.err # "none" THEN Raised(updated.err, <<update>>)
            ELSE CallResult("none", row, <<update>>, updated, row)
        Insert(insert) == Inserted(insert, ExecInsert(insert))
        Update(update) ==
            IF IsThrow(update) THEN Raised(update.err, <<>>)
            ELSE Updated(update, ExecUpdate(update))
        Failed(failed, builtData) ==
            IF failed # None THEN Raised(failed.err, <<>>)
            ELSE IF row.isNew THEN Insert(BuildInsertQuery(model, builtData))
            ELSE Update(BuildUpdateQuery(model, builtData))
        Built(builtData) ==
            Failed(FirstThrow([i \in 1..Len(builtData) |-> builtData[i].val]), builtData)
    IN  Built(BuiltData(row, model.columns, <<>>))
Save(row) ==
    LET model == models[row.cls]
        ipk == IncrementPrimaryKeyIndex(model.columns)
        Saved(rowid) ==
            Row(row.cls, FALSE,
                IF ipk = 0 THEN row.fields
                ELSE [f \in DOMAIN row.fields \cup {model.columns[ipk].name} |->
                        IF f = model.columns[ipk].name THEN Num(rowid, 0) ELSE row.fields[f]])
        Stored(saved, insert, inserted) == CallResult("none", saved, <<insert>>, inserted, saved)
        Inserted(insert, inserted) ==
            IF inserted.err # "none" THEN Raised(inserted.err, <<insert>>)
            ELSE Stored(Saved(inserted.lastInsertRowId), insert, inserted)
        Updated(update, updated) ==
            IF updated.err # "none" THEN Raised(updated.err, <<update>>)
            ELSE CallResult("none", row, <<update>>, updated, row)
        Insert(insert) == Inserted(insert, ExecInsert(insert))
        Update(update) ==
            IF IsThrow(update) THEN Raised(update.err, <<>>)
            ELSE Updated(update, ExecUpdate(update))
        Failed(failed, builtData) ==
            IF failed # None THEN Raised(failed.err, <<>>)
            ELSE IF row.isNew THEN Insert(BuildInsertQuery(model, builtData))
            ELSE Update(BuildUpdateQuery(model, builtData))
        Built(builtData) ==
            Failed(FirstThrow([i \in 1..Len(builtData) |-> builtData[i].val]), builtData)
    IN  Built(BuiltData(row, model.columns, <<>>))

Delete(cls, query) ==
    LET Done(built, done) ==
            IF done.err # "none" THEN Raised(done.err, <<built>>)
            ELSE CallResult("none", None, <<built>>, done, inst)
        Prepared(built) == Done(built, ExecDelete(built))
    IN  Prepared(BuildDeleteQuery(query, models[cls].tableName))

\* ----------------------------------------------------- the schema builder
\* `${v}` of a value inside a template literal.
RECURSIVE TemplateText(_)
RECURSIVE JoinText(_)
JoinText(items) ==
    IF items = <<>> THEN ""
    ELSE (IF IsNullish(Head(items)) THEN "" ELSE TemplateText(Head(items)))
         \o (IF Len(items) = 1 THEN "" ELSE "," \o JoinText(Tail(items)))

TemplateText(v) ==
    CASE v.k = "string" -> v.s
      [] v.k = "number" ->
            IF v.frac = 0 THEN ToString(v.int) ELSE ToString(v.int) \o "." \o ToString(v.frac)
      [] v.k = "boolean" -> IF v.b THEN "true" ELSE "false"
      [] v.k = "array" -> JoinText(v.items)
      [] v.k = "Uint8Array" -> JoinText([i \in 1..Len(v.bytes) |-> Num(v.bytes[i], 0)])
      [] v.k = "null" -> "null"
      [] v.k = "undefined" -> "undefined"
      [] OTHER -> "[object Object]"

\* value ? ... : ...
Truthy(v) ==
    CASE v.k = "boolean" -> v.b
      [] v.k = "number" -> ~(v.int = 0 /\ v.frac = 0)
      [] v.k = "string" -> v.s # ""
      [] OTHER -> ~IsNullish(v)

GetSqlType(type) ==
    CASE type \in {"boolean", "integer"} -> Str("INTEGER")
      [] type \in {"json", "string"} -> Str("TEXT")
      [] type = "blob" -> Str("BLOB")
      [] OTHER -> Throw("Error")

GetDefaultValue(type, value) ==
    CASE type = "boolean" -> IF Truthy(value) THEN Num(1, 0) ELSE Num(0, 0)
      [] type = "integer" -> value
      [] type = "json" ->
            LET Quoted(j) == IF IsThrow(j) THEN j ELSE Str("'" \o TemplateText(j) \o "'")
            IN  Quoted(Jsonify(value, {}))
      [] type = "string" -> Str("'" \o TemplateText(value) \o "'")
      [] type = "blob" -> value
      [] OTHER -> Throw("Error")

\* The text of a column definition, by its parts: the column's name, its SQL
\* type, NOT NULL, the text after DEFAULT (None: no DEFAULT) and PRIMARY KEY.
ColumnDef(name, type, notnull, dflt, pk) ==
    [k |-> "column", name |-> name, type |-> type, notnull |-> notnull, dflt |-> dflt, pk |-> pk]

BuildColumnQuery(column) ==
    LET Rendered(sqlType, dflt) ==
            IF IsThrow(sqlType) THEN sqlType
            ELSE IF IsThrow(dflt) THEN dflt
            ELSE ColumnDef(column.name, sqlType.s, ~column.nullable,
                           IF dflt = None THEN None ELSE Str(TemplateText(dflt)),
                           column.isPrimaryKey)
    IN  Rendered(GetSqlType(column.type),
                 IF IsNullish(column.defaultValue) THEN None
                 ELSE GetDefaultValue(column.type, column.defaultValue))

\* What a builder of statements returns: the statements, or the exception.
Built(err, issued) == [err |-> err, stmts |-> issued]

BuildTableQuery(model) ==
    LET Joined(defs) ==
            IF FirstThrow(defs) # None THEN FirstThrow(defs)
            ELSE [k |-> "statement", kind |-> "CREATE TABLE", table |-> model.tableName,
                  columns |-> defs]
    IN  Joined([i \in 1..Len(model.columns) |-> BuildColumnQuery(model.columns[i])])

BuildAlterQuery(existingModel, actualModel) ==
    LET Missing(col) ==
            ~\E i \in 1..Len(existingModel.columns) :
                \/ existingModel.columns[i].name = col.name
                \/ col.mappedTo # NoName /\ existingModel.columns[i].name = col.mappedTo
        Mapped(defs) ==
            IF FirstThrow(defs) # None THEN Built(FirstThrow(defs).err, <<>>)
            ELSE Built("none",
                       [i \in 1..Len(defs) |->
                            [k |-> "statement", kind |-> "ALTER TABLE",
                             table |-> actualModel.tableName, column |-> defs[i]]])
        Filtered(cols) == Mapped([i \in 1..Len(cols) |-> BuildColumnQuery(cols[i])])
    IN  IF existingModel.tableName # actualModel.tableName THEN Built("Error", <<>>)
        ELSE Filtered(SelectSeq(actualModel.columns, Missing))

BuildModelFromData(ogModel, data) ==
    LET Known(datum) ==
            \E i \in 1..Len(ogModel.columns) :
                \/ ogModel.columns[i].name = datum.name
                \/ ogModel.columns[i].mappedTo # NoName /\ ogModel.columns[i].mappedTo = datum.name
        OgCol(datum) ==
            ogModel.columns[CHOOSE i \in 1..Len(ogModel.columns) :
                /\ \/ ogModel.columns[i].name = datum.name
                   \/ ogModel.columns[i].mappedTo # NoName /\ ogModel.columns[i].mappedTo = datum.name
                /\ \A j \in 1..(i - 1) :
                    ~ \/ ogModel.columns[j].name = datum.name
                      \/ ogModel.columns[j].mappedTo # NoName /\ ogModel.columns[j].mappedTo = datum.name]
        Cols(kept) ==
            [i \in 1..Len(kept) |->
                [defaultValue |-> kept[i].dflt_value, name |-> kept[i].name,
                 nullable |-> kept[i].notnull = 0, type |-> OgCol(kept[i]).type,
                 isPrimaryKey |-> kept[i].pk = 0, mappedTo |-> OgCol(kept[i]).mappedTo]]
    IN  Model(ogModel.tableName, Cols(SelectSeq(data, Known)))

\* ------------------------------------------- the store's schema statements
\* PRAGMA table_info(name): the columns of the table, none when it is missing.
TableInfo(tbls, name) == IF name \in DOMAIN tbls THEN tbls[name].cols ELSE <<>>

\* The live column a column definition makes.
LiveColumnOf(def) ==
    LiveColumn(def.name, def.type, IF def.notnull THEN 1 ELSE 0,
               IF def.dflt = None THEN Null ELSE def.dflt, IF def.pk THEN 1 ELSE 0)

Applied(err, tbls) == [err |-> err, tables |-> tbls]

\* CREATE TABLE: an error when the table exists, when the statement has no
\* column, two columns of one name or two primary keys.
ExecCreate(st, tbls) ==
    IF \/ st.table \in DOMAIN tbls
       \/ st.columns = <<>>
       \/ \E i, j \in 1..Len(st.columns) :
            i # j /\ (st.columns[i].name = st.columns[j].name \/ (st.columns[i].pk /\ st.columns[j].pk))
    THEN Applied("Error", tbls)
    ELSE Applied("none",
                 [n \in DOMAIN tbls \cup {st.table} |->
                    IF n = st.table
                    THEN [cols |-> [i \in 1..Len(st.columns) |-> LiveColumnOf(st.columns[i])],
                          rows |-> <<>>]
                    ELSE tbls[n]])

\* ALTER TABLE ADD COLUMN: an error when the table is missing, when it has a
\* column of that name, and for a PRIMARY KEY column or a NOT NULL column
\* without a default. (The tables of the registration runs hold no rows.)
ExecAlter(st, tbls) ==
    IF \/ st.table \notin DOMAIN tbls
       \/ st.column.pk
       \/ st.column.notnull /\ st.column.dflt = None
    THEN Applied("Error", tbls)
    ELSE IF st.column.name \in ColumnNames(tbls[st.table]) THEN Applied("Error", tbls)
    ELSE Applied("none", [tbls EXCEPT ![st.table].cols = Append(@, LiveColumnOf(st.column))])

\* this.db.exec of each statement in turn, the first error ending the loop.
RECURSIVE ExecAll(_, _, _)
ExecAll(sts, tbls, issued) ==
    IF sts = <<>> THEN [err |-> "none", tables |-> tbls, stmts |-> issued]
    ELSE LET Step(done) ==
                IF done.err # "none"
                THEN [err |-> done.err, tables |-> tbls, stmts |-> Append(issued, Head(sts))]
                ELSE ExecAll(Tail(sts), done.tables, Append(issued, Head(sts)))
         IN  Step(IF Head(sts).kind = "CREATE TABLE" THEN ExecCreate(Head(sts), tbls)
                  ELSE ExecAlter(Head(sts), tbls))

\* ------------------------------------------------------------ registration
\* Object.entries(new cls()): SqlTable's _new and id, then the fields of the
\* class (Tag.key is declared without a value). Doc is the row type of the
\* README's first example: class Doc extends SqlTable { foo = 'bar'; bar = {a: 1} }
Entries(cls) ==
    <<Field("_new", Bool(TRUE)), Field("id", Num(-1, 0))>> \o
    CASE cls = "Foo" -> <<Field("foo", Str("bar"))>>
      [] cls = "Tag" -> <<Field("key", Undefined), Field("on", Bool(FALSE))>>
      [] cls = "Doc" ->
            <<Field("foo", Str("bar")), Field("bar", Obj("Object", <<Field("a", Num(1, 0))>>))>>
      [] OTHER -> <<Field("msg", Str(""))>>

\* k.startsWith('_') over the property names of the classes.
StartsWithUnderscore(name) == name \in {"_new"}

\* Object.assign(target, source) on column records.
Merge(target, source) ==
    [f \in DOMAIN target \cup DOMAIN source |-> IF f \in DOMAIN source THEN source[f] ELSE target[f]]

\* tempModelData.findIndex((i) => i.name === name), from 1; 0: not found.
IndexOf(temp, name) ==
    IF \E i \in 1..Len(temp) : temp[i].name = name
    THEN CHOOSE i \in 1..Len(temp) : temp[i].name = name /\ \A j \in 1..(i - 1) : temp[j].name # name
    ELSE 0

\* tempModelData.find((i) => i.isPrimaryKey) != null
HasPrimaryKey(temp) == \E i \in 1..Len(temp) : temp[i].isPrimaryKey

\* tempModelData after a step of registration, or the exception the step raised.
Collected(err, temp) == [err |-> err, temp |-> temp]

\* An undefined nullable is recorded as false: its one reader, buildColumnQuery,
\* does not tell them apart.
CreateTempColumn(temp, data, cls, propertyKey) ==
    LET index == IndexOf(temp, propertyKey)
        value == Get(Obj(cls, Entries(cls)), propertyKey)
        Given(f) == f \in DOMAIN data
    IN  IF index > 0 THEN Collected("none", [temp EXCEPT ![index] = Merge(@, data)])
        ELSE IF TypeOf(value) \notin {"string", "boolean", "number", "object"} /\ ~IsNullish(value)
        THEN Collected("DBInvalidTable", temp)
        ELSE IF ~Given("type") /\ IsNullish(value) THEN Collected("DBInvalidTable", temp)
        ELSE Collected("none",
                Append(temp,
                    Column(propertyKey,
                           IF Given("type") THEN data.type
                           ELSE IF TypeOf(value) = "object" THEN "json" ELSE TypeOf(value),
                           IF Given("mappedTo") THEN data.mappedTo ELSE NoName,
                           IF Given("nullable") THEN data.nullable ELSE IsNullish(value),
                           value,
                           IF Given("isPrimaryKey") THEN data.isPrimaryKey
                           ELSE ~HasPrimaryKey(temp) /\ propertyKey = "id",
                           IF Given("autoIncrement") THEN data.autoIncrement ELSE FALSE)))

\* The loop of model without its test for a null value of unknown type: the
\* property is passed over as a value of no column type is.
RECURSIVE InferColumnsPassingNull(_, _, _, _)
InferColumnsPassingNull(entries, temp, cls, hasPrimaryKey) ==
    IF entries = <<>> THEN Collected("none", temp)
    ELSE LET key == Head(entries).key
             v == Head(entries).val
             Pushed(c) ==
                IF c.err # "none" THEN c
                ELSE InferColumnsPassingNull(Tail(entries), c.temp, cls, hasPrimaryKey)
         IN  IF \/ key \in ignoredColumns
                \/ IsNullish(v) /\ IndexOf(temp, key) = 0
                \/ TypeOf(v) \notin {"string", "boolean", "object", "number"}
                \/ hasPrimaryKey /\ key = "id"
                \/ StartsWithUnderscore(key)
             THEN InferColumnsPassingNull(Tail(entries), temp, cls, hasPrimaryKey)
             ELSE Pushed(CreateTempColumn(temp,
                            [defaultValue |-> v, nullable |-> IsNullish(v), name |-> key,
                             type |-> IF TypeOf(v) = "object" THEN "json"
                                      ELSE IF key = "id" THEN "integer" ELSE TypeOf(v),
                             isPrimaryKey |-> ~hasPrimaryKey /\ key = "id",
                             autoIncrement |-> key = "id" /\ ~hasPrimaryKey],
                            cls, key))

\* The loop of model over Object.entries(tempModel).
RECURSIVE InferColumns(_, _, _, _)
InferColumns(entries, temp, cls, hasPrimaryKey) ==
    IF entries = <<>> THEN Collected("none", temp)
    ELSE LET key == Head(entries).key
             v == Head(entries).val
             Pushed(c) ==
                IF c.err # "none" THEN c ELSE InferColumns(Tail(entries), c.temp, cls, hasPrimaryKey)
         IN  IF key \in ignoredColumns THEN InferColumns(Tail(entries), temp, cls, hasPrimaryKey)
             ELSE IF IsNullish(v) /\ IndexOf(temp, key) = 0 THEN Collected("DBInvalidTable", temp)
             ELSE IF \/ TypeOf(v) \notin {"string", "boolean", "object", "number"}
                     \/ hasPrimaryKey /\ key = "id"
                     \/ StartsWithUnderscore(key)
             THEN InferColumns(Tail(entries), temp, cls, hasPrimaryKey)
             ELSE Pushed(CreateTempColumn(temp,
                            [defaultValue |-> v, nullable |-> IsNullish(v), name |-> key,
                             type |-> IF TypeOf(v) = "object" THEN "json"
                                      ELSE IF key = "id" THEN "integer" ELSE TypeOf(v),
                             isPrimaryKey |-> ~hasPrimaryKey /\ key = "id",
                             autoIncrement |-> key = "id" /\ ~hasPrimaryKey],
                            cls, key))

\* The statements model hands to the store for a built model: CREATE TABLE when
\* table_info of the class name is empty, the missing columns otherwise.
Reconcile(cls, builtModel, tbls) ==
    LET info == TableInfo(tbls, cls)
        Created(query) ==
            IF IsThrow(query) THEN Built(query.err, <<>>) ELSE Built("none", <<query>>)
    IN  IF Len(info) = 0 THEN Created(BuildTableQuery(builtModel))
        ELSE BuildAlterQuery(BuildModelFromData(builtModel, info), builtModel)

\* JSON.stringify(this.models) as saveModel writes it: undefined members are
\* left out.
SnapshotOf(registered) ==
    [cls \in DOMAIN registered |->
        [tableName |-> registered[cls].tableName,
         columns |->
            [i \in 1..Len(registered[cls].columns) |->
                LET col == registered[cls].columns[i]
                IN  [f \in {g \in DOMAIN col :
                                /\ ~(g = "mappedTo" /\ col.mappedTo = NoName)
                                /\ ~(g = "defaultValue" /\ col.defaultValue.k = "undefined")} |->
                        col[f]]]]]

\* What model(tableName) applied to class cls does: the exception it raises
\* ("none": it returns) and the mapper, the store and the file after it.
Registration(err, registered, temp, tbls, issued, file) ==
    [err |-> err, models |-> registered, tempModelData |-> temp, tables |-> tbls,
     stmts |-> issued, modelFile |-> file]

RegisterModel(cls, tableName) ==
    LET Executed(registered, done) ==
            Registration(done.err, registered, <<>>, done.tables, done.stmts,
                         IF done.err = "none" THEN SnapshotOf(registered) ELSE modelFile)
        Planned(registered, plan) ==
            IF plan.err # "none"
            THEN Registration(plan.err, registered, <<>>, tables, <<>>, modelFile)
            ELSE Executed(registered, ExecAll(plan.stmts, tables, <<>>))
        BuiltModel(builtModel) ==
            Planned([c \in DOMAIN models \cup {cls} |-> IF c = cls THEN builtModel ELSE models[c]],
                    Reconcile(cls, builtModel, tables))
        Inferred(c) ==
            IF c.err # "none"
            THEN Registration(c.err, models, c.temp, tables, <<>>, modelFile)
            ELSE BuiltModel(Model(IF tableName = NoName THEN cls ELSE tableName, c.temp))
    IN  Inferred(InferColumns(Entries(cls), tempModelData, cls, HasPrimaryKey(tempModelData)))

\* ------------------------------------------------------- the snapshot file
\* 'version' in data, for a parsed JSON value that is an object or an array.
HasVersion(data) ==
    data.k = "object" /\ \E i \in 1..Len(data.fields) : data.fields[i].key = "version"

\* readVersion0 leaving the legacy form at version 0.
ReadVersion0Kept(data) ==
    Obj("Object", <<Field("version", Num(0, 0)), Field("models", data)>>)

ReadVersion0(data) ==
    Obj("Object", <<Field("version", Num(1, 0)), Field("models", data)>>)

\* read(dbPath) on the text of <dbPath>.model.json (None: no such file): the
\* models, or the exception. The `in` operator throws a TypeError on a parsed
\* value that is not an object.
Read(file) ==
    LET Versioned(data) ==
            IF HasVersion(data) /\ Get(data, "version") = Num(1, 0) THEN Get(data, "models")
            ELSE Throw("Error")
        Upgraded(data) ==
            IF TypeOf(data) # "object" \/ data.k = "null" THEN Throw("TypeError")
            ELSE IF ~HasVersion(data) THEN Versioned(ReadVersion0(data))
            ELSE Versioned(data)
        Loaded(parsed) == IF IsThrow(parsed) THEN Obj("Object", <<>>) ELSE Upgraded(parsed)
    IN  IF file = None THEN Obj("Object", <<>>) ELSE Loaded(JsonParse(file))

\* The text write(models, dbPath) leaves in the file (the indentation of
\* JSON.stringify(..., null, 2) is white space between the tokens).
Write(registered) ==
    JsonStringify(Obj("Object", <<Field("version", Num(1, 0)), Field("models", registered)>>))

\* ------------------------------------------------------- bounded inputs
SeqsOf(S, n) == UNION {[1..m -> S] : m \in 0..n}
Scalars == {Bool(TRUE), Num(1, 0), Str("a")}
KeyNames == {"a", "b"}

\* Field lists of at most n fields over distinct keys, values from S.
FieldLists(Keys, S, n) ==
    {fs \in SeqsOf([key : Keys, val : S], n) :
        \A i, j \in 1..Len(fs) : i # j => fs[i].key # fs[j].key}

BarOf(x) == Obj("Bar", <<Field("foo", x), Field("ignored", Str("tmp"))>>)

\* Scalars and containers of scalars.
FlatValues ==
    Scalars
    \cup {Bytes(b) : b \in SeqsOf({0, 255}, MaxLen)}
    \cup {Arr(items) : items \in SeqsOf(Scalars, MaxLen)}
    \cup {MapV(es) : es \in FieldLists({Str(n) : n \in KeyNames}, Scalars, MaxLen)}
    \cup {Obj("Object", fs) : fs \in FieldLists(KeyNames, Scalars, MaxLen)}
    \cup {BarOf(x) : x \in Scalars}

\* One more level of nesting around x.
Wrappings(x) ==
    {Arr(<<x>>), Obj("Object", <<Field("f", x)>>), MapV(<<Field(Str("a"), x)>>), BarOf(x)}

RECURSIVE NestedValues(_)
NestedValues(d) ==
    IF d = 0 THEN FlatValues
    ELSE NestedValues(d - 1) \cup UNION {Wrappings(x) : x \in NestedValues(d - 1)}

\* What jsonify is handed: an array or a plain object holding a value.
CodecInputs ==
    {Arr(<<x>>) : x \in NestedValues(MaxDepth)}
    \cup {Obj("Object", <<Field("v", x)>>) : x \in NestedValues(MaxDepth)}

\* ------------------------------------------------------- the codec runs
\* No serializer run and no mapper in this run.
IdleSerializer == sval = None /\ stype = "string" /\ stored = None /\ loaded = None
IdleCodec == cv = None /\ enc = None /\ dec = None
IdleOrm ==
    /\ models = <<>> /\ tables = <<>> /\ lastInsertRowId = 0
    /\ rowType = "" /\ inst = None /\ ret = None /\ stmts = <<>>
    /\ tempModelData = <<>> /\ ignoredColumns = {} /\ modelFile = None

InitCodec ==
    /\ serializableClasses = <<>>
    /\ cv \in CodecInputs
    /\ enc = None
    /\ dec = None
    /\ IdleSerializer /\ IdleOrm

\* @registerJsonSerializabe(ignoredProps) on class cls, at startup.
RegisterJsonSerializabe(cls) ==
    /\ enc = None
    /\ \A i \in 1..Len(serializableClasses) : serializableClasses[i].classRef # cls
    /\ serializableClasses' =
            Append(serializableClasses, [classRef |-> cls, ignoredProps |-> IgnoredPropsOf(cls)])
    /\ UNCHANGED <<codecVars, serVars, ormVars>>

\* enc = jsonify(cv)
Encode ==
    /\ enc = None
    /\ enc' = Jsonify(cv, {})
    /\ UNCHANGED <<serializableClasses, cv, dec, serVars, ormVars>>

\* dec = dejsonify(enc)
Decode ==
    /\ enc # None /\ ~IsThrow(enc) /\ dec = None
    /\ dec' = Dejsonify(enc)
    /\ UNCHANGED <<serializableClasses, cv, enc, serVars, ormVars>>

NextCodec ==
    \/ \E cls \in Classes : RegisterJsonSerializabe(cls)
    \/ Encode
    \/ Decode

SpecCodec == InitCodec /\ [][NextCodec]_vars

\* --------------------------------------------------- the serializer runs
\* Field values of every runtime kind, for every column type.
SerializerInputs ==
    {Bool(TRUE), Bool(FALSE), Num(0, 0), Num(1, 0), Num(-1, 0), Num(1, 5), Str("a"), Str("")}
    \cup {Bytes(b) : b \in SeqsOf({0, 255}, MaxLen)}
    \cup CodecInputs \cup NestedValues(0)

BarRegistered == <<[classRef |-> "Bar", ignoredProps |-> IgnoredPropsOf("Bar")]>>

InitSerialize ==
    /\ serializableClasses = BarRegistered
    /\ IdleCodec /\ IdleOrm
    /\ sval \in SerializerInputs
    /\ stype \in ColumnTypes
    /\ stored = None
    /\ loaded = None

\* stored = this.serialize(sval, stype)
DoSerialize ==
    /\ stored = None
    /\ stored' = Serialize(sval, stype)
    /\ UNCHANGED <<serializableClasses, codecVars, sval, stype, loaded, ormVars>>

\* loaded = this.deseralize(stored, stype)
DoDeseralize ==
    /\ stored # None /\ ~IsThrow(stored) /\ loaded = None
    /\ loaded' = Deseralize(stored, stype)
    /\ UNCHANGED <<serializableClasses, codecVars, sval, stype, stored, ormVars>>

NextSerialize == DoSerialize \/ DoDeseralize

SpecSerialize == InitSerialize /\ [][NextSerialize]_vars

\* ------------------------------------------------------ the mapper runs
\* The tables of the store as registration leaves them, the table of the run's
\* row type holding the rows an earlier run of the application left.
LiveTables(cls, rows) ==
    [t \in RowTypes |->
        [cols |->
            CASE t = "Foo" -> << LiveColumn("id", "INTEGER", 1, Str("-1"), 1),
                                 LiveColumn("foo", "TEXT", 1, Str("'bar'"), 0) >>
              [] t = "Tag" -> << LiveColumn("key", "TEXT", 0, Null, 1),
                                 LiveColumn("enabled", "INTEGER", 1, Str("0"), 0) >>
              [] OTHER -> << LiveColumn("msg", "TEXT", 1, Str("''"), 0) >>,
         rows |-> IF t = cls THEN rows ELSE <<>>]]

EarlierRows(cls) ==
    CASE cls = "Foo" -> <<StoredRow(1, [c \in {"id", "foo"} |-> IF c = "id" THEN Num(1, 0) ELSE Str("a")])>>
      [] cls = "Tag" -> <<StoredRow(1, [c \in {"key", "enabled"} |-> IF c = "key" THEN Str("a") ELSE Num(1, 0)])>>
      [] OTHER -> <<StoredRow(1, [c \in {"msg"} |-> Str("a")])>>

\* What the application assigns to fields, passes as an id, and queries for.
FieldValues == {Null, Num(1, 5), Str("b")}
IdValues == {Num(1, 0), Str("a"), Str("b")}
ColumnFields(cls) == {models[cls].columns[i].name : i \in 1..Len(models[cls].columns)}
Queries(cls) ==
    {Query(None, 0)}
    \cup {Query(Where(c, Num(2, 0)), 0) : c \in {PhysicalName(models[cls].columns[1]), "nope"}}

Init ==
    /\ serializableClasses = BarRegistered
    /\ IdleCodec /\ IdleSerializer
    /\ models = RegisteredModels
    /\ rowType \in RowTypes
    /\ \E rows \in {<<>>, EarlierRows(rowType)} : tables = LiveTables(rowType, rows)
    /\ lastInsertRowId = 0
    /\ inst = None
    /\ ret = None
    /\ stmts = <<>>
    /\ tempModelData = <<>>
    /\ ignoredColumns = {"id"}
    /\ modelFile = SnapshotOf(RegisteredModels)

Called(op, arg, r) == [op |-> op, arg |-> arg, err |-> r.err, out |-> r.out]

\* The state after a mapper call that did r, the application keeping the row
\* the call returned when it assigns the result (inst = ...).
Returns(op, arg, r, assigns) ==
    /\ Len(r.tables[models[rowType].tableName].rows) <= MaxRows
    /\ r.lastInsertRowId <= MaxRowId
    /\ inst' = IF assigns /\ r.err = "none" THEN r.out ELSE r.row
    /\ ret' = Called(op, arg, r)
    /\ stmts' = r.stmts
    /\ tables' = r.tables
    /\ lastInsertRowId' = r.lastInsertRowId
    /\ UNCHANGED <<serializableClasses, codecVars, serVars, models, rowType, regVars>>

\* The application: inst = new T()
Construct ==
    /\ inst' = NewRow(rowType)
    /\ ret' = None /\ stmts' = <<>>
    /\ UNCHANGED <<serializableClasses, codecVars, serVars, models, tables, lastInsertRowId,
                   rowType, regVars>>

\* The application: inst.f = v
Assign(f, v) ==
    /\ inst # None
    /\ inst' = [inst EXCEPT !.fields[f] = v]
    /\ ret' = None /\ stmts' = <<>>
    /\ UNCHANGED <<serializableClasses, codecVars, serVars, models, tables, lastInsertRowId,
                   rowType, regVars>>

\* orm.save(inst)
SaveCall ==
    /\ inst # None
    /\ Returns("save", inst, Save(inst), FALSE)

\* inst = orm.findOne(T, idOrQuery)
FindOneCall(idOrQuery) ==
    Returns("findOne", idOrQuery, FindOne(rowType, idOrQuery), TRUE)

\* inst = orm.findOneOptional(T, idOrQuery)
FindOneOptionalCall(idOrQuery) ==
    Returns("findOneOptional", idOrQuery, FindOneOptional(rowType, idOrQuery), TRUE)

\* orm.findMany(T, query)
FindManyCall(query) ==
    Returns("findMany", query, FindMany(rowType, query), FALSE)

\* orm.delete(T, query)
DeleteCall(query) ==
    Returns("delete", query, Delete(rowType, query), FALSE)

Next ==
    \/ Construct
    \/ \E f \in ColumnFields(rowType), v \in FieldValues : Assign(f, v)
    \/ SaveCall
    \/ \E q \in IdValues \cup Queries(rowType) : FindOneCall(q)
    \/ \E q \in IdValues \cup Queries(rowType) : FindOneOptionalCall(q)
    \/ \E q \in Queries(rowType) : FindManyCall(q)
    \/ \E q \in Queries(rowType) : DeleteCall(q)

Spec == Init /\ [][Next]_vars

\* ------------------------------------------------- the registration runs
\* The decorators the declaration of a class applies to its properties, and
\* the table name its model decorator may give.
Decorations(cls) ==
    CASE cls = "Foo" -> {[property |-> "foo", data |-> [mappedTo |-> "old"]],
                         [property |-> "foo", data |-> [isPrimaryKey |-> TRUE]],
                         [property |-> "id", data |-> [isPrimaryKey |-> TRUE]]}
      [] cls = "Tag" -> {[property |-> "key", data |-> [type |-> "string"]],
                         [property |-> "key", data |-> [isPrimaryKey |-> TRUE]],
                         [property |-> "key", data |-> [autoIncrement |-> TRUE]],
                         [property |-> "on", data |-> [mappedTo |-> "enabled"]]}
      [] cls = "Doc" -> {}
      [] OTHER -> {[property |-> "msg", data |-> [nullable |-> TRUE]]}
IgnoredProperties(cls) == IF cls = "Log" THEN {"id"} ELSE {}
TableNames == {NoName, "bar"}

\* The class declarations of the application in the order they are evaluated:
\* a module declares Foo, a module declares Tag, a module declares Log and then
\* Doc.
DeclaredAfter(cls) == IF cls = "Log" THEN {"Doc"} ELSE {}
FirstDeclared(cls) == IF cls = "Doc" THEN "Log" ELSE cls

\* What the store holds when the mapper is opened: nothing; the table of the
\* class or the table of the override, with the first columns of the class or
\* with a column no class declares; or both tables.
LiveColumns(cls) == LiveTables(cls, <<>>)[cls].cols
Legacy == <<LiveColumn("legacy", "TEXT", 0, Null, 0)>>
LiveStores(cls) ==
    {<<>>}
    \cup {[t \in {name} |-> [cols |-> SubSeq(LiveColumns(cls), 1, n), rows |-> <<>>]] :
            name \in {cls, "bar"}, n \in 1..Len(LiveColumns(cls))}
    \cup {[t \in {name} |-> [cols |-> Legacy, rows |-> <<>>]] : name \in {cls, "bar"}}
    \cup {[t \in {cls, "bar"} |-> [cols |-> Legacy, rows |-> <<>>]]}

InitRegister ==
    /\ serializableClasses = BarRegistered
    /\ IdleCodec /\ IdleSerializer
    /\ rowType \in RowTypes
    /\ tables \in LiveStores(rowType)
    /\ models = <<>>
    /\ lastInsertRowId = 0
    /\ inst = None
    /\ ret = None
    /\ stmts = <<>>
    /\ tempModelData = <<>>
    /\ ignoredColumns = {}
    /\ modelFile = None

\* new SqliteOrm(options): a process starts on the store and the file an
\* earlier one left. (lastModel, which the constructor reads from the file, is
\* read for log lines only and is not part of the state.)
Open ==
    /\ rowType \in DOMAIN models
    /\ models' = <<>>
    /\ tempModelData' = <<>>
    /\ ignoredColumns' = {}
    /\ rowType' = FirstDeclared(rowType)
    /\ ret' = None /\ stmts' = <<>>
    /\ UNCHANGED <<serializableClasses, codecVars, serVars, tables, lastInsertRowId, inst,
                   modelFile>>

\* The evaluation of the module goes on to the declaration of class cls, the
\* model decorator of the class before it having returned.
Declare(cls) ==
    /\ rowType \in DOMAIN models
    /\ ret # None /\ ret.op = "model" /\ ret.err = "none"
    /\ cls \notin DOMAIN models
    /\ rowType' = cls
    /\ ret' = None /\ stmts' = <<>>
    /\ UNCHANGED <<serializableClasses, codecVars, serVars, models, tables, lastInsertRowId,
                   inst, regVars>>

\* column(data) without its test for a second primary key.
ColumnDecoratorUnchecked(propertyKey, data) ==
    LET Created(c) ==
            /\ tempModelData' = c.temp
            /\ ret' = [op |-> "column", arg |-> [property |-> propertyKey, data |-> data],
                       err |-> c.err, out |-> None]
    IN  /\ rowType \notin DOMAIN models
        /\ Created(CreateTempColumn(tempModelData, data, rowType, propertyKey))
        /\ stmts' = <<>>
        /\ UNCHANGED <<serializableClasses, codecVars, serVars, models, tables, lastInsertRowId,
                       rowType, inst, ignoredColumns, modelFile>>

\* @orm.column(data) on a property of the class (columnType, nullable,
\* primaryKey, mapTo and autoIncrement are column with one member).
ColumnDecorator(propertyKey, data) ==
    LET twoKeys == "isPrimaryKey" \in DOMAIN data /\ data.isPrimaryKey /\ HasPrimaryKey(tempModelData)
        Created(c) ==
            /\ tempModelData' = c.temp
            /\ ret' = [op |-> "column", arg |-> [property |-> propertyKey, data |-> data],
                       err |-> c.err, out |-> None]
    IN  /\ rowType \notin DOMAIN models
        /\ Created(IF twoKeys THEN Collected("DBInvalidTable", tempModelData)
                   ELSE CreateTempColumn(tempModelData, data, rowType, propertyKey))
        /\ stmts' = <<>>
        /\ UNCHANGED <<serializableClasses, codecVars, serVars, models, tables, lastInsertRowId,
                       rowType, inst, ignoredColumns, modelFile>>

\* @orm.ignoreColumn() on a property of the class.
IgnoreColumn(propertyKey) ==
    /\ rowType \notin DOMAIN models
    /\ tempModelData' = SelectSeq(tempModelData, LAMBDA c : c.name # propertyKey)
    /\ ignoredColumns' = ignoredColumns \cup {propertyKey}
    /\ ret' = [op |-> "ignoreColumn", arg |-> propertyKey, err |-> "none", out |-> None]
    /\ stmts' = <<>>
    /\ UNCHANGED <<serializableClasses, codecVars, serVars, models, tables, lastInsertRowId,
                   rowType, inst, modelFile>>

\* The state after model(tableName) did r.
Registers(tableName, r) ==
    /\ models' = r.models
    /\ tempModelData' = r.tempModelData
    /\ tables' = r.tables
    /\ stmts' = r.stmts
    /\ modelFile' = r.modelFile
    /\ ret' = [op |-> "model", arg |-> [cls |-> rowType, tableName |-> tableName],
               err |-> r.err, out |-> None]
    /\ UNCHANGED <<serializableClasses, codecVars, serVars, lastInsertRowId, rowType, inst,
                   ignoredColumns>>

\* @orm.model(tableName) on the class.
ModelDecorator(tableName) ==
    /\ rowType \notin DOMAIN models
    /\ Registers(tableName, RegisterModel(rowType, tableName))

NextRegister ==
    \/ Open
    \/ \E cls \in DeclaredAfter(rowType) : Declare(cls)
    \/ \E d \in Decorations(rowType) : ColumnDecorator(d.property, d.data)
    \/ \E p \in IgnoredProperties(rowType) : IgnoreColumn(p)
    \/ \E n \in TableNames : ModelDecorator(n)

SpecRegister == InitRegister /\ [][NextRegister]_vars

\* ----------------------------------------------------- the snapshot runs
\* In these runs modelFile is the text of <dbPath>.model.json and ret the
\* last call of the snapshot module.
MaxTables == 2
SchemaValues ==
    {Obj("Object", <<Field("tableName", Str(n)),
                     Field("columns", Arr(<<Obj("Object", <<Field("name", Str("id")),
                                                            Field("type", Str("integer"))>>)>>))>>) :
        n \in {"Foo", "bar"}}

\* Maps from table key to schema of at most MaxTables tables.
ModelMaps(Keys) == {Obj("Object", fs) : fs \in FieldLists(Keys, SchemaValues, MaxTables)}
VersionValues == {Num(1, 0), Num(2, 0), Num(0, 0), Str("1"), Null}

\* What the file may hold when read is called: nothing (no file), text that
\* is not JSON, a bare map (a row type may be named version), {version,
\* models} of any version, and JSON that is no object.
SnapshotFiles ==
    {None, JsonText(<<Tok("{")>>)}
    \cup {JsonStringify(v) :
            v \in ModelMaps({"Foo", "Tag", "version"})
                \cup {Obj("Object", <<Field("version", ver), Field("models", m)>>) :
                        ver \in VersionValues, m \in ModelMaps({"Foo", "Tag"})}
                \cup {Num(3, 0), Null}}

InitSnapshot ==
    /\ serializableClasses = <<>>
    /\ IdleCodec /\ IdleSerializer
    /\ models = <<>> /\ tables = <<>> /\ lastInsertRowId = 0
    /\ rowType = "" /\ inst = None /\ stmts = <<>>
    /\ tempModelData = <<>> /\ ignoredColumns = {}
    /\ ret = None
    /\ modelFile \in SnapshotFiles

\* read(dbPath)
ReadCall ==
    LET Returned(r) ==
            ret' = [op |-> "read", arg |-> None,
                    err |-> IF IsThrow(r) THEN r.err ELSE "none",
                    out |-> IF IsThrow(r) THEN None ELSE r]
    IN  /\ Returned(Read(modelFile))
        /\ UNCHANGED <<serializableClasses, codecVars, serVars, models, tables, lastInsertRowId,
                       rowType, inst, stmts, regVars>>

\* write(models, dbPath)
WriteCall(registered) ==
    /\ modelFile' = Write(registered)
    /\ ret' = [op |-> "write", arg |-> registered, err |-> "none", out |-> None]
    /\ UNCHANGED <<serializableClasses, codecVars, serVars, models, tables, lastInsertRowId,
                   rowType, inst, stmts, tempModelData, ignoredColumns>>

NextSnapshot ==
    \/ ReadCall
    \/ \E m \in ModelMaps({"Foo", "Tag"}) : WriteCall(m)

SpecSnapshot == InitSnapshot /\ [][NextSnapshot]_vars

\* ------------------------------------------------- the statement builder runs
\* In these runs tempModelData is the column list of a built model, stmts
\* what the builder returned and ret the call. A value of each column type,
\* as the default of a column (fooId = 0 is inferred as number).
DefaultOf(type) ==
    CASE type = "string" -> Str("a")
      [] type = "number" -> Num(0, 0)
      [] type = "boolean" -> Bool(FALSE)
      [] type = "integer" -> Num(-1, 0)
      [] type = "json" -> Obj("Object", <<Field("a", Num(1, 0))>>)
      [] OTHER -> Bytes(<<0>>)

\* The columns registration can hand to the builder.
BuilderInputs ==
    UNION {{Column("fooId", type, mappedTo, nullable, defaultValue, isPrimaryKey, FALSE) :
                mappedTo \in {NoName, "old"}, nullable \in BOOLEAN,
                defaultValue \in {Undefined, DefaultOf(type)}, isPrimaryKey \in BOOLEAN} :
            type \in ColumnTypes}

InitBuilder ==
    /\ serializableClasses = <<>>
    /\ IdleCodec /\ IdleSerializer
    /\ models = <<>> /\ tables = <<>> /\ lastInsertRowId = 0
    /\ rowType = "" /\ inst = None /\ stmts = <<>>
    /\ ignoredColumns = {} /\ modelFile = None
    /\ ret = None
    /\ \E col \in BuilderInputs : tempModelData = <<col>>

\* The state after builder call op returned or raised r.
BuilderReturns(op, r) ==
    /\ ret' = [op |-> op, arg |-> Model("Foo", tempModelData), err |-> r.err, out |-> None]
    /\ stmts' = r.stmts
    /\ UNCHANGED <<serializableClasses, codecVars, serVars, models, tables, lastInsertRowId,
                   rowType, inst, regVars>>

\* buildTableQuery(builtModel)
TableQueryCall ==
    LET Returned(query) ==
            IF IsThrow(query) THEN Built(query.err, <<>>) ELSE Built("none", <<query>>)
    IN  BuilderReturns("buildTableQuery", Returned(BuildTableQuery(Model("Foo", tempModelData))))

\* buildAlterQuery(existingModel, builtModel), the table holding no column of
\* the model.
AlterQueryCall ==
    BuilderReturns("buildAlterQuery",
                   BuildAlterQuery(Model("Foo", <<>>), Model("Foo", tempModelData)))

NextBuilder == TableQueryCall \/ AlterQueryCall

SpecBuilder == InitBuilder /\ [][NextBuilder]_vars

\* ------------------------------------------------ claims about the codec
\* Whether every class instance inside v is an instance of a registered class.
RECURSIVE AllRegistered(_)
AllRegistered(v) ==
    CASE v.k = "array" -> \A i \in 1..Len(v.items) : AllRegistered(v.items[i])
      [] v.k = "object" ->
            /\ v.cls = "Object" \/ FindRegisteredFor(v) # 0
            /\ \A i \in 1..Len(v.fields) : AllRegistered(v.fields[i].val)
      [] v.k = "Map" ->
            \A i \in 1..Len(v.entries) :
                AllRegistered(v.entries[i].key) /\ AllRegistered(v.entries[i].val)
      [] OTHER -> TRUE

\* v's data: v without the ignored fields of its registered class instances.
RECURSIVE DataOf(_)
DataOf(v) ==
    CASE v.k = "array" -> Arr([i \in 1..Len(v.items) |-> DataOf(v.items[i])])
      [] v.k = "object" ->
            LET ignored == IF FindRegisteredFor(v) # 0
                           THEN serializableClasses[FindRegisteredFor(v)].ignoredProps
                           ELSE {}
                Keep(f) == f.key \notin ignored
                kept == SelectSeq(v.fields, Keep)
            IN  Obj(v.cls, [i \in 1..Len(kept) |-> Field(kept[i].key, DataOf(kept[i].val))])
      [] v.k = "Map" ->
            MapV([i \in 1..Len(v.entries) |->
                    Field(DataOf(v.entries[i].key), DataOf(v.entries[i].val))])
      [] OTHER -> v

\* Whether a value of one of the kinds K occurs in v.
RECURSIVE HasKind(_, _)
HasKind(v, K) ==
    \/ v.k \in K
    \/ v.k = "array" /\ \E i \in 1..Len(v.items) : HasKind(v.items[i], K)
    \/ v.k = "object" /\ \E i \in 1..Len(v.fields) : HasKind(v.fields[i].val, K)
    \/ v.k = "Map" /\ \E i \in 1..Len(v.entries) :
            HasKind(v.entries[i].key, K) \/ HasKind(v.entries[i].val, K)

\* The value the codec input holds: its only element or field.
Held(v) == IF v.k = "array" THEN v.items[1] ELSE v.fields[1].val

\* C5: for every encodable value whose class instances are registered,
\* dejsonify(jsonify(v)) succeeds and reproduces v's data outside the ignored
\* fields. The code loses maps and byte buffers on the way.
C5_RoundTrip ==
    (enc # None /\ AllRegistered(cv)) =>
        /\ ~IsThrow(enc)
        /\ dec # None => (~IsThrow(dec) /\ DataOf(dec) = DataOf(cv))

\* C6: a map of scalars is encoded as {type: "Map", data: [[key, value], ...]}
\* and decoding that value gives back a map with the same keys and values.
C6_MapRoundTrip ==
    (/\ dec # None
     /\ Held(cv).k = "Map" /\ Held(cv).entries # <<>>
     /\ ~HasKind(Held(cv), {"array", "object", "Uint8Array"})) =>
        /\ Get(Held(enc), "type") = Str("Map")
        /\ Get(Held(enc), "data") = MapEntries(Held(cv))
        /\ Held(dec) = Held(cv)

\* The base64 text of a byte sequence (RFC 4648).
Base64Alphabet ==
    << "A", "B", "C", "D", "E", "F", "G", "H", "I", "J", "K", "L", "M", "N", "O", "P",
       "Q", "R", "S", "T", "U", "V", "W", "X", "Y", "Z", "a", "b", "c", "d", "e", "f",
       "g", "h", "i", "j", "k", "l", "m", "n", "o", "p", "q", "r", "s", "t", "u", "v",
       "w", "x", "y", "z", "0", "1", "2", "3", "4", "5", "6", "7", "8", "9", "+", "/" >>
B64(i) == Base64Alphabet[i + 1]
RECURSIVE Base64(_)
Base64(bs) ==
    CASE Len(bs) = 0 -> ""
      [] Len(bs) = 1 -> B64(bs[1] \div 4) \o B64((bs[1] % 4) * 16) \o "=="
      [] Len(bs) = 2 ->
            B64(bs[1] \div 4) \o B64((bs[1] % 4) * 16 + bs[2] \div 16)
            \o B64((bs[2] % 16) * 4) \o "="
      [] OTHER ->
            B64(bs[1] \div 4) \o B64((bs[1] % 4) * 16 + bs[2] \div 16)
            \o B64((bs[2] % 16) * 4 + bs[3] \div 64) \o B64(bs[3] % 64)
            \o Base64(SubSeq(bs, 4, Len(bs)))

\* C7: a byte buffer is encoded as {type: "ByteArray", data: <base64 of its
\* bytes>} and decoding that value gives back a byte buffer with the same bytes.
C7_BytesRoundTrip ==
    (dec # None /\ Held(cv).k = "Uint8Array") =>
        /\ Get(Held(enc), "type") = Str("ByteArray")
        /\ Get(Held(enc), "data") = Str(Base64(Held(cv).bytes))
        /\ Held(dec) = Held(cv)

\* ------------------------------------------ claims about the serializers
\* Whether data is of the runtime kind of a column type.
MatchesType(data, type) ==
    CASE type = "boolean" -> TypeOf(data) = "boolean"
      [] type = "string" -> TypeOf(data) = "string"
      [] type = "number" -> TypeOf(data) = "number"
      [] type = "integer" -> TypeOf(data) = "number" /\ IsInteger(data)
      [] type = "blob" -> data.k = "Uint8Array"
      [] type = "json" -> TypeOf(data) = "object" /\ data.k # "null"
      [] OTHER -> FALSE

\* C8: for every column type and every value of the matching runtime kind,
\* serialize does not raise and deseralize gives the value back.
C8_SerializeRoundTrip ==
    (stored # None /\ MatchesType(sval, stype)) =>
        /\ ~IsThrow(stored)
        /\ loaded # None => DataOf(loaded) = DataOf(sval)

\* C16: a json column value that is an instance of a registered class is
\* stored as JSON text of the tagged form {data, type: 'custom-<class>'} whose
\* data leaves out the ignored fields of the class, and reading the stored
\* text back gives an instance of the class with the saved values in its
\* other fields.
C16_CustomTypeColumn ==
    (stype = "json" /\ sval.k = "object" /\ FindRegisteredFor(sval) # 0 /\ stored # None) =>
        /\ ~IsThrow(stored)
        /\ LET IsTagged(p) ==
                    /\ ~IsThrow(p) /\ p.k = "object"
                    /\ Get(p, "type") = Str(CustomTag(sval.cls))
                    /\ Get(p, "data").k = "object"
                    /\ \A i \in 1..Len(Get(p, "data").fields) :
                            Get(p, "data").fields[i].key \notin IgnoredPropsOf(sval.cls)
           IN  IsTagged(JsonParse(stored))
        /\ loaded # None =>
                /\ loaded.k = "object" /\ loaded.cls = sval.cls
                /\ DataOf(loaded) = DataOf(sval)

\* ------------------------------------------------ claims about the mapper
\* The last mapper call was op.
Did(op) == ret # None /\ ret.op = op
Kinds(issued) == [i \in 1..Len(issued) |-> issued[i].kind]

\* Every declared column of row holds a value of the kind of its type.
KindsMatch(row) ==
    \A i \in 1..Len(models[row.cls].columns) :
        LET col == models[row.cls].columns[i]
        IN  ~IsNullish(FieldOf(row, col.name)) /\ MatchesType(FieldOf(row, col.name), col.type)

\* C1: save on a new instance (new Foo()) inserts a row, assigns the generated
\* row id to the auto-increment primary key field and sets isNew to false; a
\* later save on the instance issues an update keyed on that id, never an insert.
C1_SaveInsertsThenUpdates ==
    (Did("save") /\ rowType = "Foo") =>
        /\ ret.arg = NewRow("Foo") =>
                /\ ret.err = "none"
                /\ Kinds(stmts) = <<"INSERT">>
                /\ ~inst.isNew
                /\ inst.fields["id"] = Num(lastInsertRowId, 0)
        /\ (~ret.arg.isNew /\ KindsMatch(ret.arg)) =>
                /\ ret.err = "none"
                /\ Kinds(stmts) = <<"UPDATE">>
                /\ stmts[1].keyVal = ret.arg.fields["id"]

\* C2: every instance findOne or findMany returns has isNew = false, and save
\* on an instance findOne returned issues no insert.
C2_FetchedIsNotNew ==
    /\ [](/\ (Did("findOne") /\ ret.err = "none") => ~ret.out.isNew
          /\ (Did("findMany") /\ ret.err = "none") =>
                \A i \in 1..Len(ret.out) : ~ret.out[i].isNew)
    /\ [][(Did("findOne") /\ ret.err = "none" /\ ret' # None /\ ret'.op = "save"
                /\ ret'.arg = ret.out) => "INSERT" \notin {stmts'[i].kind : i \in 1..Len(stmts')}]_vars

\* The stored values of the primary key column that equal a scalar id.
RowsWithKey(cls, id) ==
    LET model == models[cls]
        col == model.columns[PrimaryKeyIndex(model.columns)]
    IN  SelectSeq(tables[model.tableName].rows,
                  LAMBDA r : DataOf(r.vals[PhysicalName(col)]) = DataOf(id))

\* C3: findOne raises NotFound whenever its statement matches no row: called
\* with a primary key value of the kind of the key column, and called with a
\* SelectQuery.
C3_FindOneNotFound ==
    (Did("findOne") /\ PrimaryKeyIndex(models[rowType].columns) # 0) =>
        LET model == models[rowType]
            col == model.columns[PrimaryKeyIndex(model.columns)]
            t == tables[model.tableName]
        IN  /\ (/\ TypeOf(ret.arg) # "object"
                 /\ MatchesType(ret.arg, col.type)
                 /\ RowsWithKey(rowType, ret.arg) = <<>>) => ret.err = "DBNotFound"
            /\ (/\ TypeOf(ret.arg) = "object"
                 /\ ret.arg.where # None
                 /\ ret.arg.where.clause \in ColumnNames(t)
                 /\ Selected(t, ret.arg.where) = <<>>) => ret.err = "DBNotFound"

\* C4: findOneOptional returns a fresh unsaved instance (isNew = true, id = -1)
\* exactly when findOne raises NotFound; every other exception of findOne
\* propagates unchanged, and a result of findOne is returned unchanged.
C4_FindOneOptional ==
    Did("findOneOptional") =>
        LET found == FindOne(rowType, ret.arg)
        IN  IF found.err = "DBNotFound"
            THEN /\ ret.err = "none"
                 /\ ret.out = NewRow(rowType)
                 /\ ret.out.isNew /\ ret.out.fields["id"] = Num(-1, 0)
            ELSE ret.err = found.err /\ ret.out = found.out

\* findOneOptional returned a fresh instance where findOne raises NotFound.
C4_Witness ==
    /\ Did("findOneOptional")
    /\ FindOne(rowType, ret.arg).err = "DBNotFound"
    /\ ret.err = "none" /\ ret.out = NewRow(rowType)

\* C9: save raises InvalidData and issues no statement if and only if some
\* declared column's non-null field value is not of the kind of the column's
\* type; an integer column accepts every whole number.
C9_SaveInvalidData ==
    Did("save") =>
        LET cols == models[rowType].columns
            mismatch ==
                \E i \in 1..Len(cols) :
                    /\ ~IsNullish(FieldOf(ret.arg, cols[i].name))
                    /\ ~MatchesType(FieldOf(ret.arg, cols[i].name), cols[i].type)
        IN  (ret.err = "DBInvalidData" /\ stmts = <<>>) <=> mismatch

\* C24: a save that raises leaves the row instance as it was handed in (isNew
\* and the primary key field included), and the next save of a new instance
\* whose save raised issues no update.
C24_FailedSaveKeepsRow ==
    /\ [][(ret' # None /\ ret'.op = "save" /\ ret'.err # "none")
            => inst' = inst /\ inst' = ret'.arg]_vars
    /\ []((Did("save") /\ ret.err # "none" /\ ret.arg.isNew) =>
            LET Again(r) == "UPDATE" \notin {r.stmts[i].kind : i \in 1..Len(r.stmts)}
            IN  inst.isNew /\ Again(Save(inst)))

C24_Witness ==
    /\ Did("save") /\ ret.err = "Error"
    /\ Kinds(stmts) = <<"INSERT">>
    /\ ret.arg.isNew /\ inst = ret.arg

\* ------------------------------------------ claims about registration
\* C10: after the statements of one reconciliation have been applied to the
\* store, reconciling the same declared schema again gives no statement.
C10_ReconcileIdempotent ==
    (Did("model") /\ ret.err = "none") =>
        Reconcile(rowType, models[rowType], tables) = Built("none", <<>>)

\* Whether a declared column is found among the columns of a live table, under
\* its own name or under the name it is mapped to.
IsLive(col, t) == col.name \in ColumnNames(t) \/ PhysicalName(col) \in ColumnNames(t)

\* C11: after a registration the live table of the row type holds every
\* column the row type declares; a registration emits only CREATE TABLE and
\* ALTER TABLE ADD COLUMN statements, and no step removes a column from a live
\* table, a column no declaration names included.
C11_SchemaOnlyGrows ==
    /\ []((Did("model") /\ ret.err = "none") =>
            /\ models[rowType].tableName \in DOMAIN tables
            /\ \A i \in 1..Len(models[rowType].columns) :
                    IsLive(models[rowType].columns[i], tables[models[rowType].tableName]))
    /\ [][/\ \A n \in DOMAIN tables :
                n \in DOMAIN tables' /\ ColumnNames(tables[n]) \subseteq ColumnNames(tables'[n])
          /\ \A i \in 1..Len(stmts') : stmts'[i].kind \in {"CREATE TABLE", "ALTER TABLE"}]_vars

\* The declared columns of cls that its live table does not hold, in declared
\* order.
StillMissing(cls) ==
    SelectSeq(models[cls].columns, LAMBDA c : ~IsLive(c, tables[models[cls].tableName]))

\* C12: when a batch of ADD COLUMN statements stopped after some of them were
\* applied, the next registration of the same declared schema emits one ADD
\* COLUMN for each declared column the live table still lacks, in declared
\* order, and none for a column the live table holds.
C12_PartialBatchResumes ==
    (Did("model") /\ ret.err # "none" /\ Len(stmts) >= 2) =>
        LET Resumes(next) ==
                /\ next.err = "none"
                /\ [i \in 1..Len(next.stmts) |->
                        <<next.stmts[i].kind, next.stmts[i].table, next.stmts[i].column.name>>]
                   = [i \in 1..Len(StillMissing(rowType)) |->
                        <<"ALTER TABLE", models[rowType].tableName, StillMissing(rowType)[i].name>>]
        IN  Resumes(Reconcile(rowType, models[rowType], tables))

\* Whether the columns collected so far hold a primary key on a column other
\* than propertyKey.
OtherPrimaryKey(temp, propertyKey) ==
    \E i \in 1..Len(temp) : temp[i].isPrimaryKey /\ temp[i].name # propertyKey

\* C13: declaring a column as primary key while another column already is the
\* primary key raises DBInvalidTable, and the step hands no statement to the
\* store and leaves the tables and the collected columns as they were.
C13_TwoPrimaryKeys ==
    [][(/\ ret' # None /\ ret'.op = "column"
        /\ "isPrimaryKey" \in DOMAIN ret'.arg.data /\ ret'.arg.data.isPrimaryKey
        /\ OtherPrimaryKey(tempModelData, ret'.arg.property))
       => /\ ret'.err = "DBInvalidTable"
          /\ stmts' = <<>> /\ tables' = tables
          /\ tempModelData' = tempModelData
          /\ rowType \notin DOMAIN models']_vars

C13_Witness ==
    /\ Did("column") /\ ret.err = "DBInvalidTable"
    /\ ret.arg.data = [isPrimaryKey |-> TRUE]
    /\ OtherPrimaryKey(tempModelData, ret.arg.property)
    /\ stmts = <<>>

\* The table a registration call names: tableName ?? model.name.
PhysicalTable(arg) == IF arg.tableName = NoName THEN arg.cls ELSE arg.tableName

\* C14: registering Doc (fields foo = 'bar' and bar = {a: 1}, id not
\* overridden) gives the schema with exactly the columns id (integer, primary
\* key, auto-increment), foo (string, default 'bar') and bar (json), none for
\* _new; when the table does not exist the registration emits exactly one
\* CREATE TABLE.
C14_ScenarioA ==
    /\ []((Did("model") /\ rowType = "Doc") =>
            /\ "Doc" \in DOMAIN models
            /\ LET cols == models["Doc"].columns
               IN  /\ [i \in 1..Len(cols) |-> cols[i].name] = <<"id", "foo", "bar">>
                   /\ cols[1].type = "integer" /\ cols[1].isPrimaryKey /\ cols[1].autoIncrement
                   /\ cols[2].type = "string" /\ cols[2].defaultValue = Str("bar")
                   /\ cols[3].type = "json")
    /\ [][(/\ ret' # None /\ ret'.op = "model" /\ rowType = "Doc"
           /\ PhysicalTable(ret'.arg) \notin DOMAIN tables)
          => /\ Kinds(stmts') = <<"CREATE TABLE">>
             /\ stmts'[1].table = PhysicalTable(ret'.arg)
             /\ [i \in 1..Len(stmts'[1].columns) |-> stmts'[1].columns[i].name]
                    = <<"id", "foo", "bar">>]_vars

\* Whether class cls has a property, not ignored, whose value is null or
\* undefined and for which no column with a type has been collected.
UntypedNull(cls, temp, ignored) ==
    \E i \in 1..Len(Entries(cls)) :
        /\ IsNullish(Entries(cls)[i].val)
        /\ Entries(cls)[i].key \notin ignored
        /\ IndexOf(temp, Entries(cls)[i].key) = 0

C17_CreateOnlyWhenMissing ==
    [][(ret' # None /\ ret'.op = "model" /\ rowType \in DOMAIN models')
       => LET live == TableInfo(tables, PhysicalTable(ret'.arg))
          IN  /\ (\E i \in 1..Len(stmts') : stmts'[i].kind = "CREATE TABLE") => live = <<>>
              /\ live # <<>> =>
                    /\ \A i \in 1..Len(stmts') :
                        /\ stmts'[i].kind = "ALTER TABLE"
                        /\ stmts'[i].table = PhysicalTable(ret'.arg)
                        /\ stmts'[i].column.name \notin {live[j].name : j \in 1..Len(live)}
                    /\ ret'.err = "none" =>
                        \A i \in 1..Len(models'[rowType].columns) :
                            IsLive(models'[rowType].columns[i], tables'[PhysicalTable(ret'.arg)])]_vars

\* The column definitions of a CREATE TABLE or ALTER TABLE ADD COLUMN statement.
DefsOf(st) == IF st.kind = "CREATE TABLE" THEN st.columns ELSE <<st.column>>

\* C18: every column definition a registration emits names a declared column
\* by its physical name (mappedTo ?? name), and after a registration that
\* returned the live table of the row type holds the physical name of every
\* declared column.
C18_PhysicalNames ==
    (Did("model") /\ rowType \in DOMAIN models) =>
        LET cols == models[rowType].columns
            physical == {PhysicalName(cols[i]) : i \in 1..Len(cols)}
        IN  /\ \A i \in 1..Len(stmts) : \A j \in 1..Len(DefsOf(stmts[i])) :
                    DefsOf(stmts[i])[j].name \in physical
            /\ ret.err = "none" =>
                    /\ models[rowType].tableName \in DOMAIN tables
                    /\ physical \subseteq ColumnNames(tables[models[rowType].tableName])

\* C19: no step removes a table key from the persisted schema snapshot: once
\* the file holds an entry for a table key it holds one ever after, whether or
\* not the running process has registered that row type.
C19_SnapshotKeepsKeys ==
    [][modelFile # None => (modelFile' # None /\ DOMAIN modelFile \subseteq DOMAIN modelFile')]_vars

\* ------------------------------------- claims about the snapshot module
\* C20: read returns the bare map of a file without a version member (the
\* legacy form, read as version 1), returns the models member of a file whose
\* version is 1, and raises the unknown-version Error for a file whose version
\* member is anything else.
C20_SnapshotVersions ==
    (Did("read") /\ modelFile # None) =>
        LET Settles(data) ==
                (~IsThrow(data) /\ data.k = "object") =>
                    IF ~HasVersion(data) THEN ret.err = "none" /\ ret.out = data
                    ELSE IF Get(data, "version") = Num(1, 0)
                    THEN ret.err = "none" /\ ret.out = Get(data, "models")
                    ELSE ret.err = "Error"
        IN  Settles(JsonParse(modelFile))

C20_Witness ==
    /\ Did("read") /\ ret.err = "none" /\ modelFile # None
    /\ ret.out \in ModelMaps({"Foo", "Tag"}) /\ ret.out.fields # <<>>
    /\ JsonParse(modelFile) = ret.out

\* ------------------------------------ claims about the registered schemas
\* C21: every registered schema has at most one primary key column and at
\* most one auto-increment column, and its auto-increment column is its
\* primary key.
C21_OneKeyOneIncrement ==
    \A cls \in DOMAIN models :
        LET cols == models[cls].columns
        IN  /\ Cardinality({i \in 1..Len(cols) : cols[i].isPrimaryKey}) <= 1
            /\ Cardinality({i \in 1..Len(cols) : cols[i].autoIncrement}) <= 1
            /\ \A i \in 1..Len(cols) : cols[i].autoIncrement => cols[i].isPrimaryKey

\* C22: a property that another class marked as ignored and that the class
\* itself did not is a column of the registered schema of the class (id gives
\* way to another primary key only).
C22_IgnoredElsewhere ==
    \A cls \in DOMAIN models :
        LET cols == models[cls].columns
            names == {cols[i].name : i \in 1..Len(cols)}
        IN  \A i \in 1..Len(Entries(cls)) :
                (/\ Entries(cls)[i].key \in ignoredColumns \ IgnoredProperties(cls)
                 /\ ~StartsWithUnderscore(Entries(cls)[i].key)
                 /\ ~(Entries(cls)[i].key = "id" /\ HasPrimaryKey(cols)))
                => Entries(cls)[i].key \in names

\* C23: after a registration that raised, the row type is not among the
\* registered models and no column collected for it is left pending for the
\* class declared next.
C23_FailedRegistrationLeavesNothing ==
    (Did("model") /\ ret.err # "none") =>
        /\ rowType \notin DOMAIN models
        /\ tempModelData = <<>>

\* ------------------------------------ claims about the statement builder
\* C25: for a column of every column type (string, number, boolean, integer,
\* json, blob) buildTableQuery and buildAlterQuery return a statement and do
\* not raise.
C25_RenderingIsTotal ==
    (ret # None /\ ret.op \in {"buildTableQuery", "buildAlterQuery"}) =>
        /\ ret.err = "none"
        /\ Len(stmts) = 1
        /\ stmts[1].kind = IF ret.op = "buildTableQuery" THEN "CREATE TABLE" ELSE "ALTER TABLE"

=============================================================================
